---------------------------- MODULE Spec2Model ----------------------------
(***************************************************************************)
(* A model of pastens: the ENS history endpoint (GET /api/ens), which      *)
(* reconciles a domain's transfer log, registration records and present    *)
(* owner into ownership periods, and the ENSHistory display timeline.      *)
(* The leaderboard endpoint (GET /api/leaderboard), with its module-level  *)
(* cache shared by concurrent requests, and the Leaderboard component that *)
(* fetches it, are modelled by their own actions and specifications.       *)
(*                                                                         *)
(* Instants are whole seconds since the Unix epoch: every Date the         *)
(* endpoint builds is `seconds * 1000`, so the millisecond unit of the     *)
(* code is the model's unit times 1000.  An ISO string produced by         *)
(* toISOString() and read back by new Date() denotes the same instant, and *)
(* two such strings are equal exactly when their instants are, so the      *)
(* model carries the instant in both places.  The server runs in UTC.      *)
(***************************************************************************)
EXTENDS Integers, Sequences, FiniteSets, TLC

VARIABLES
    ensName,       \* the request's `name` parameter, NoEnsName when it has none
    subgraph,      \* what the ENS subgraph holds for the domain
    pc,            \* position of the request: "query", "hash", "blocks", "process",
                   \* "responded", "rendered", "failed"
    rpcUrl,        \* process.env.NEXT_PUBLIC_RPC_URL is set
    data,          \* the subgraph's answer: [owner, createdAt, registrations, transfers]
    blocks,        \* blocks[i]: timestamp of the block fetched for transfers[i], or NullBlock
    response,      \* the JSON body: [name, owners, currentOwner, expiryDate]
    status,        \* the HTTP status of the response, 0 while there is none
    error,         \* which failure the response reports, NoError for none
    requests,      \* the upstream requests issued so far, in order, each with its answer
    ensdata,       \* what api.ensdata.net does when asked for the current owner
    settled,       \* the transfers whose block lookup has settled, in order of completion
    timeline,      \* the periods ENSHistory builds from the response
    transfersTable,      \* the subgraph's transfers, by ascending block number
    clock,               \* Date.now() of the leaderboard server, in minutes
    cachedData,          \* the module-level leaderboard cache: NoCache or [data, timestamp]
    leaderboardRequests, \* the leaderboard requests: position, locals, log and response of each
    isExpanded,          \* Leaderboard component state
    hasFetched,
    loading,
    leaderboardError,
    leaderboardData,
    effectPending,       \* the effect is scheduled to run after the latest render
    inFlight             \* the fetches of /api/leaderboard that have not resolved

vars == <<ensName, subgraph, pc, rpcUrl, data, blocks, response, status, error, requests,
          ensdata, settled, timeline, transfersTable, clock, cachedData,
          leaderboardRequests, isExpanded, hasFetched, loading, leaderboardError,
          leaderboardData, effectPending, inFlight>>

\* The state of the history endpoint and page, of the leaderboard endpoint,
\* and of the Leaderboard component
historyVars == <<ensName, subgraph, pc, rpcUrl, data, blocks, response, status, error, requests,
                 ensdata, settled, timeline>>
leaderboardVars == <<transfersTable, clock, cachedData, leaderboardRequests>>
componentVars == <<isExpanded, hasFetched, loading, leaderboardError, leaderboardData,
                   effectPending, inFlight>>

---------------------------------------------------------------------------
(* Bounds of the model *)

MaxTransfers == 3

\* In the specification of domains with several registration records: the
\* most records, and the most transfers
MaxRegistrations == 2
MaxRegisteredTransfers == 1

MaxAvatarTransfers == 1     \* transfers of a domain whose owner's avatar is looked up

MaxLogTransfers == 4        \* transfers of a log that repeats a transfer event

MaxLookups == 2             \* block lookups in flight whose completions are interleaved

MaxTable == 2               \* transfers the subgraph holds for the leaderboard
MaxClock == 60              \* minutes of server time in which leaderboard requests arrive
MaxInFlight == 2            \* fetches of /api/leaderboard the component has pending at once

batchSize == 1              \* transfers per batch (1000 in the code)
batchesPerDirection == 2    \* batches per direction (5 in the code)

---------------------------------------------------------------------------
(* Program constants *)

GenesisSeconds == 1438214400      \* new Date('2015-07-30T00:00:00Z').getTime() / 1000
AvgBlockSeconds == 12
DaySeconds == 86400
MinYear == 2015
ProximityBlocks == 10

CACHE_TTL == 30                   \* minutes: 30 * 60 * 1000 ms
TopCount == 10                    \* .slice(0, 10)

Undefined == -1                   \* an absent optional field (endDate?, expiryDate?)
NullBlock == -1                   \* getBlock(...).catch(() => null)
Pending == -2                     \* a getBlock promise that has not settled

NoName == "undefined"             \* marketplaceName absent
NoHash == ""                      \* transactionHash: ""
ZeroAddress == "0x0000000000000000000000000000000000000000"

MARKETPLACE_CONTRACTS ==
    [a \in { "0x00000000006c3852cbef3e08e8df289169ede581",
             "0x00000000006cee72100d161c57ada5bb2be1ca79",
             "0x00000000006c7676171937c444f6bde3d6282",
             "0x0000000000000ad24e80fd803c6ac37206a45f15",
             "0x00000000000001ad428e4906ae43d8f9852d0dd6",
             "0x00000000000000adc04c56bf30ac9d3c0aaf14dc",
             "0x7be8076f4ea4a4ad08075c2508e481d6c946d12b",
             "0x7f268357a8c2552623316e2562d90e642bb538e5",
             "0x495f947276749ce646f68ac8c248420045cb7b5e" } |->
        CASE a = "0x00000000006c3852cbef3e08e8df289169ede581" -> "OpenSea Seaport"
          [] a = "0x00000000006cee72100d161c57ada5bb2be1ca79" -> "OpenSea Seaport V1"
          [] a = "0x00000000006c7676171937c444f6bde3d6282" -> "OpenSea Seaport V3"
          [] a = "0x0000000000000ad24e80fd803c6ac37206a45f15" -> "OpenSea Seaport V4"
          [] a = "0x00000000000001ad428e4906ae43d8f9852d0dd6" -> "OpenSea Seaport V5"
          [] a = "0x00000000000000adc04c56bf30ac9d3c0aaf14dc" -> "OpenSea Seaport V6"
          [] a = "0x7be8076f4ea4a4ad08075c2508e481d6c946d12b" -> "OpenSea Wyvern"
          [] a = "0x7f268357a8c2552623316e2562d90e642bb538e5" -> "OpenSea Wyvern V2"
          [] OTHER -> "OpenSea Shared Storefront"]

---------------------------------------------------------------------------
(* The inputs the model draws from *)

OwnerA == "0xaa11"
OwnerAChecksum == "0xAA11"        \* the same account, written in mixed case
OwnerB == "0xbb22"
Wyvern == "0x7be8076f4ea4a4ad08075c2508e481d6c946d12b"
WyvernChecksum == "0x7Be8076f4EA4A4AD08075C2508e481d6C946D12b"

\* String.prototype.toLowerCase on the addresses of the model
toLowerCase(a) ==
    CASE a = OwnerAChecksum -> OwnerA
      [] a = WyvernChecksum -> Wyvern
      [] OTHER -> a

TransferOwners == {OwnerA, OwnerB}
\* domain.owner.id: a mixed-case spelling, a lower-case one, and no owner
DomainOwners == {OwnerAChecksum, OwnerB, ZeroAddress}
Registrants == {OwnerA, OwnerB}

\* Block numbers of the transfers: equal blocks, blocks 5 apart, blocks a day apart
BlockNumbers == {9000000, 9000005, 9007200}

TxIds == <<"0xt1", "0xt2", "0xt3", "0xt4", "0xt5">>

\* Date.now() on the server, and in the browser a minute later
ServerNow == 1767225600           \* 2026-01-01T00:00:00Z
BrowserNow == ServerNow + 60

estimateTimestampFromBlock(blockNumber) ==
    GenesisSeconds + blockNumber * AvgBlockSeconds

\* How far the chain's real block time is ahead of the linear estimate: an
\* hour, which is more than 5 blocks' worth and less than 7200 blocks' worth,
\* so a failed lookup next to a successful one inverts the order of two
\* transfers 0 or 5 blocks apart and keeps that of two transfers a day apart.
ClockDrift == 3600

\* block.timestamp of a block of the chain
BlockTimestamp(blockNumber) == estimateTimestampFromBlock(blockNumber) + ClockDrift

\* registrationDate (seconds, "0" when unparseable): the day before the
\* estimate of the first block, within the first block's day, and a fresh
\* registration later than every transfer.
RegistrationDates ==
    { 0,
      estimateTimestampFromBlock(9000000) - 3600,
      estimateTimestampFromBlock(9000000) + 20,
      BlockTimestamp(9007200) + 7200 }

\* expiryDate: a year from now
ExpiryDates == { ServerNow + 31536000 }

CreatedAt == estimateTimestampFromBlock(9000000) - 3600

NonDecreasing(bs) == \A i \in 1..(Len(bs) - 1) : bs[i] <= bs[i + 1]

\* The transfer logs of at most `longest` transfers to the given owners
TransferListsOf(owners, longest) ==
    UNION { { [i \in 1..n |-> [owner |-> os[i], blockNumber |-> bs[i], transactionID |-> TxIds[i]]] :
                os \in [1..n -> owners],
                bs \in { b \in [1..n -> BlockNumbers] : NonDecreasing(b) } } :
            n \in 0..longest }

TransferLists == TransferListsOf(TransferOwners, MaxTransfers)

\* Transfer logs that pass through a known marketplace contract, whose
\* address the subgraph may spell in mixed case
MarketTransferOwners == {OwnerA, OwnerB, WyvernChecksum}
MarketTransferLists == TransferListsOf(MarketTransferOwners, MaxTransfers)

RegistrationRecords ==
    [registrant : Registrants, registrationDate : RegistrationDates, expiryDate : ExpiryDates]

RegistrationLists == {<<>>} \cup { <<r>> : r \in RegistrationRecords }

\* Domains registered several times: the records come in any order, the
\* queries ask for none
SeveralRegistrationLists ==
    UNION { [1..n -> RegistrationRecords] : n \in 0..MaxRegistrations }


---------------------------------------------------------------------------
(* Dates *)

\* The calendar date <<year, month, day>> of an instant (Date's getFullYear,
\* getMonth, getDate), by the days-to-civil algorithm.
CivilDate(t) ==
    LET z == (t \div DaySeconds) + 719468
        era == z \div 146097
        doe == z - era * 146097
        yoe == (doe - (doe \div 1460) + (doe \div 36524) - (doe \div 146096)) \div 365
        doy == doe - (365 * yoe + (yoe \div 4) - (yoe \div 100))
        mp == (5 * doy + 2) \div 153
        d == doy - ((153 * mp + 2) \div 5) + 1
        m == IF mp < 10 THEN mp + 3 ELSE mp - 9
        y == yoe + era * 400 + (IF m <= 2 THEN 1 ELSE 0)
    IN  <<y, m, d>>

getFullYear(t) == CivilDate(t)[1]

\* regDate.getFullYear() >= 2015 && regDate.getFullYear() <= new Date().getFullYear() + 1
ReasonableYear(t) ==
    /\ getFullYear(t) >= MinYear
    /\ getFullYear(t) <= getFullYear(ServerNow) + 1

\* parseInt gave a number > 0 and the date it denotes has a reasonable year
ValidTimestamp(seconds) == seconds > 0 /\ ReasonableYear(seconds)

---------------------------------------------------------------------------
(* Marketplace detection *)

isMarketplaceContract(address) ==
    LET addrLower == toLowerCase(address)
    IN  IF addrLower \in DOMAIN MARKETPLACE_CONTRACTS
        THEN [isMarketplace |-> TRUE, name |-> MARKETPLACE_CONTRACTS[addrLower]]
        ELSE [isMarketplace |-> FALSE, name |-> NoName]

---------------------------------------------------------------------------
(* Period construction, with block timestamps *)

\* A variant that ignores the fetched block and always estimates
TransferTimestampEstimateOnly(transfers, blks, i) ==
    estimateTimestampFromBlock(transfers[i].blockNumber)

\* A variant in which one failed lookup makes every transfer fall back to
\* its estimate
TransferTimestampBatchFails(transfers, blks, i) ==
    IF \A j \in 1..Len(blks) : blks[j] # NullBlock
    THEN blks[i]
    ELSE estimateTimestampFromBlock(transfers[i].blockNumber)

\* block ? new Date(Number(block.timestamp) * 1000) : estimateTimestampFromBlock(...)
TransferTimestamp(transfers, blks, i) ==
    IF blks[i] # NullBlock
    THEN blks[i]
    ELSE estimateTimestampFromBlock(transfers[i].blockNumber)

\* Same owner in the same block as the transfer before it: a duplicate event
IsDuplicateTransfer(transfers, blks, i) ==
    /\ i > 1
    /\ blks[i - 1] # NullBlock
    /\ blks[i] # NullBlock
    /\ transfers[i - 1].blockNumber = transfers[i].blockNumber
    /\ toLowerCase(transfers[i - 1].owner) = toLowerCase(transfers[i].owner)

\* A rapid intermediate transfer: within 10 blocks of both neighbours and an
\* owner different from both
IsRapidIntermediate(transfers, blks, i) ==
    /\ i > 1
    /\ i < Len(transfers)
    /\ blks[i - 1] # NullBlock
    /\ blks[i + 1] # NullBlock
    /\ blks[i] # NullBlock
    /\ transfers[i].blockNumber - transfers[i - 1].blockNumber <= ProximityBlocks
    /\ transfers[i + 1].blockNumber - transfers[i].blockNumber <= ProximityBlocks
    /\ toLowerCase(transfers[i].owner) # toLowerCase(transfers[i - 1].owner)
    /\ toLowerCase(transfers[i].owner) # toLowerCase(transfers[i + 1].owner)

MarketplaceOf(transfers, blks, i) ==
    LET marketplaceCheck == isMarketplaceContract(transfers[i].owner)
    IN  IF ~marketplaceCheck.isMarketplace /\ IsRapidIntermediate(transfers, blks, i)
        THEN [isMarketplace |-> TRUE, name |-> "Marketplace"]
        ELSE marketplaceCheck

RpcPeriod(transfers, blks, i) ==
    [ address |-> transfers[i].owner,
      startDate |-> TransferTimestamp(transfers, blks, i),
      endDate |-> IF i < Len(transfers)
                  THEN TransferTimestamp(transfers, blks, i + 1)
                  ELSE Undefined,
      transactionHash |-> transfers[i].transactionID,
      blockNumber |-> transfers[i].blockNumber,
      isMarketplace |-> MarketplaceOf(transfers, blks, i).isMarketplace,
      marketplaceName |-> MarketplaceOf(transfers, blks, i).name ]

RECURSIVE RpcLoop(_, _, _)
RpcLoop(transfers, blks, i) ==
    IF i > Len(transfers)
    THEN <<>>
    ELSE (IF IsDuplicateTransfer(transfers, blks, i)
          THEN <<>>
          ELSE <<RpcPeriod(transfers, blks, i)>>)
         \o RpcLoop(transfers, blks, i + 1)

OwnersFromBlocks(transfers, blks) == RpcLoop(transfers, blks, 1)

---------------------------------------------------------------------------
(* Period construction, without a timestamp source *)

\* The base date: registrations[0], else createdAt, else the genesis estimate
FallbackRegistrationDate(d) ==
    LET earliestBlock == IF Len(d.transfers) > 0 THEN d.transfers[1].blockNumber ELSE 0
    IN  IF Len(d.registrations) > 0 /\ ValidTimestamp(d.registrations[1].registrationDate)
        THEN d.registrations[1].registrationDate
        ELSE IF ValidTimestamp(d.createdAt)
        THEN d.createdAt
        ELSE estimateTimestampFromBlock(earliestBlock)

EstimatedPeriod(d, i) ==
    LET earliestBlock == d.transfers[1].blockNumber
        blockDiff == d.transfers[i].blockNumber - earliestBlock
        estimatedDate == FallbackRegistrationDate(d) + blockDiff * AvgBlockSeconds
    IN  [ address |-> d.transfers[i].owner,
          startDate |-> estimatedDate,
          endDate |-> IF i < Len(d.transfers)
                      THEN estimatedDate
                           + (d.transfers[i + 1].blockNumber - d.transfers[i].blockNumber)
                             * AvgBlockSeconds
                      ELSE Undefined,
          transactionHash |-> d.transfers[i].transactionID,
          blockNumber |-> d.transfers[i].blockNumber,
          isMarketplace |-> FALSE,
          marketplaceName |-> NoName ]

OwnersFromEstimates(d) == [i \in 1..Len(d.transfers) |-> EstimatedPeriod(d, i)]

\* The owners list after period construction, on either path
ConstructOwners(rpc, d, blks) ==
    IF rpc THEN OwnersFromBlocks(d.transfers, blks) ELSE OwnersFromEstimates(d)

---------------------------------------------------------------------------
(* Registration reconciliation: data.registrations[0] against the first owner *)

sameDay(a, b) == CivilDate(a) = CivilDate(b)

RegistrantPeriod(registration, endDate) ==
    [ address |-> registration.registrant,
      startDate |-> registration.registrationDate,
      endDate |-> endDate,
      transactionHash |-> NoHash,
      blockNumber |-> 0,
      isMarketplace |-> FALSE,
      marketplaceName |-> NoName ]

ApplyRegistration(owners, d) ==
    IF Len(d.registrations) = 0 \/ ~ValidTimestamp(d.registrations[1].registrationDate)
    THEN owners
    ELSE
        LET registration == d.registrations[1]
            regDate == registration.registrationDate
            registrantAddress == toLowerCase(registration.registrant)
            registrantIsCurrentOwner == registrantAddress = toLowerCase(d.owner)
        IN  IF Len(owners) > 0
            THEN LET firstOwner == owners[1]
                 IN  IF toLowerCase(firstOwner.address) = registrantAddress
                        /\ sameDay(firstOwner.startDate, regDate)
                     THEN [owners EXCEPT ![1].startDate = regDate]
                     ELSE IF firstOwner.startDate > regDate /\ ~registrantIsCurrentOwner
                     THEN <<RegistrantPeriod(registration, firstOwner.startDate)>> \o owners
                     ELSE owners
            ELSE IF registrantIsCurrentOwner
                 THEN <<RegistrantPeriod(registration, Undefined)>>
                 ELSE owners

---------------------------------------------------------------------------
(* Sort, consolidation, duration filter *)

\* Array.prototype.sort with (a, b) => a.startDate - b.startDate: stable
RECURSIVE InsertByStart(_, _)
InsertByStart(sorted, x) ==
    IF sorted = <<>>
    THEN <<x>>
    ELSE IF sorted[Len(sorted)].startDate <= x.startDate
    THEN Append(sorted, x)
    ELSE Append(InsertByStart(SubSeq(sorted, 1, Len(sorted) - 1), x), sorted[Len(sorted)])

\* A variant that leaves the list in the order it was built
SortByStartDateOmitted(owners) == owners

RECURSIVE SortByStartDate(_)
SortByStartDate(owners) ==
    IF owners = <<>>
    THEN <<>>
    ELSE InsertByStart(SortByStartDate(SubSeq(owners, 1, Len(owners) - 1)), owners[Len(owners)])

\* The end date of the last consolidated period after `current`, of the same
\* owner, is merged into it
MergedEndDate(lastConsolidated, current) ==
    IF current.endDate # Undefined
    THEN IF lastConsolidated.endDate = Undefined \/ current.endDate > lastConsolidated.endDate
         THEN current.endDate
         ELSE lastConsolidated.endDate
    ELSE Undefined

\* A variant that puts a period of a different owner at the front of the list
ConsolidateStepPrepends(consolidatedOwners, current) ==
    IF consolidatedOwners = <<>>
    THEN <<current>>
    ELSE LET n == Len(consolidatedOwners)
             lastConsolidated == consolidatedOwners[n]
         IN  IF toLowerCase(lastConsolidated.address) = toLowerCase(current.address)
             THEN [consolidatedOwners EXCEPT ![n].endDate = MergedEndDate(lastConsolidated, current)]
             ELSE <<current>> \o consolidatedOwners

ConsolidateStep(consolidatedOwners, current) ==
    IF consolidatedOwners = <<>>
    THEN <<current>>
    ELSE LET n == Len(consolidatedOwners)
             lastConsolidated == consolidatedOwners[n]
         IN  IF toLowerCase(lastConsolidated.address) = toLowerCase(current.address)
             THEN [consolidatedOwners EXCEPT ![n].endDate = MergedEndDate(lastConsolidated, current)]
             ELSE Append(consolidatedOwners, current)

RECURSIVE Consolidate(_)
Consolidate(owners) ==
    IF owners = <<>>
    THEN <<>>
    ELSE ConsolidateStep(Consolidate(SubSeq(owners, 1, Len(owners) - 1)), owners[Len(owners)])

PositiveDuration(owner) ==
    owner.endDate = Undefined \/ owner.endDate - owner.startDate > 0

FilterDuration(owners) == SelectSeq(owners, PositiveDuration)

\* The owners list as it stands when the current owner is separated from it
ProcessedOwners(rpc, d, blks) ==
    FilterDuration(FilterDuration(
        Consolidate(SortByStartDate(ApplyRegistration(ConstructOwners(rpc, d, blks), d)))))

---------------------------------------------------------------------------
(* Expiry and the most recent registration *)

\* [...registrations].sort((a, b) => b.registrationDate - a.registrationDate)[0]:
\* the first record, in the order given, with the greatest registrationDate
LatestRegistration(registrations) ==
    LET best == CHOOSE i \in 1..Len(registrations) :
                    /\ \A j \in 1..Len(registrations) :
                           registrations[j].registrationDate <= registrations[i].registrationDate
                    /\ \A j \in 1..(i - 1) :
                           registrations[j].registrationDate < registrations[i].registrationDate
    IN  registrations[best]

ExpiryDate(d) ==
    IF Len(d.registrations) = 0
    THEN Undefined
    ELSE LET expiry == LatestRegistration(d.registrations).expiryDate
         IN  IF expiry > 0 /\ getFullYear(expiry) >= MinYear /\ expiry > ServerNow - DaySeconds
             THEN expiry
             ELSE Undefined

\* The latest registration's date, when its registrant is the present owner
MostRecentRegistrationDate(d) ==
    IF Len(d.registrations) = 0
    THEN Undefined
    ELSE LET latestReg == LatestRegistration(d.registrations)
         IN  IF /\ latestReg.registrationDate > 0
                /\ ReasonableYear(latestReg.registrationDate)
                /\ toLowerCase(latestReg.registrant) = toLowerCase(d.owner)
             THEN latestReg.registrationDate
             ELSE Undefined

---------------------------------------------------------------------------
(* Separating the current owner from the history *)

CurrentOwnerData(address, startDate, endDate, transactionHash) ==
    [ address |-> address, startDate |-> startDate, endDate |-> endDate,
      transactionHash |-> transactionHash ]

\* The later of `startDate` and the most recent registration date, if there is one
AdvancedStart(startDate, d) ==
    IF MostRecentRegistrationDate(d) # Undefined /\ MostRecentRegistrationDate(d) > startDate
    THEN MostRecentRegistrationDate(d)
    ELSE startDate

\* The last owner is the present owner: it becomes the current owner
MatchCurrent(owners, d) ==
    LET lastOwner == owners[Len(owners)]
    IN  CurrentOwnerData(d.owner, AdvancedStart(lastOwner.startDate, d), ExpiryDate(d),
                         lastOwner.transactionHash)

\* historicalOwners.map(...): every historical owner gets an end date
EnsureEndDate(historicalOwners, index, currentStart) ==
    LET owner == historicalOwners[index]
    IN  IF owner.endDate # Undefined
        THEN IF index < Len(historicalOwners)
                /\ owner.endDate > historicalOwners[index + 1].startDate
             THEN [owner EXCEPT !.endDate = historicalOwners[index + 1].startDate]
             ELSE owner
        ELSE IF index < Len(historicalOwners)
             THEN [owner EXCEPT !.endDate = historicalOwners[index + 1].startDate]
             ELSE [owner EXCEPT !.endDate = currentStart]

\* A variant that leaves the current owner in the history
MatchHistoricalKeepsLast(owners, d) ==
    [index \in 1..Len(owners) |->
        EnsureEndDate(owners, index, MatchCurrent(owners, d).startDate)]

MatchHistorical(owners, d) ==
    LET historicalOwners == SubSeq(owners, 1, Len(owners) - 1)
    IN  [index \in 1..Len(historicalOwners) |->
            EnsureEndDate(historicalOwners, index, MatchCurrent(owners, d).startDate)]

\* The last owner is not the present owner: a current owner is synthesized
MismatchCurrent(owners, d) ==
    LET lastOwner == owners[Len(owners)]
        lastTransferDate == IF lastOwner.endDate # Undefined
                            THEN lastOwner.endDate
                            ELSE lastOwner.startDate
    IN  CurrentOwnerData(d.owner, AdvancedStart(lastTransferDate, d), ExpiryDate(d), NoHash)

MismatchHistorical(owners, d) ==
    LET n == Len(owners)
    IN  IF owners[n].endDate = Undefined
        THEN [owners EXCEPT ![n].endDate = MismatchCurrent(owners, d).startDate]
        ELSE owners

\* No owners at all: the present owner since registration, creation or now
NoOwnersStart(d) ==
    LET registrationDate ==
            IF Len(d.registrations) > 0
            THEN IF ValidTimestamp(d.registrations[1].registrationDate)
                 THEN d.registrations[1].registrationDate
                 ELSE ServerNow
            ELSE IF ValidTimestamp(d.createdAt)
                 THEN d.createdAt
                 ELSE ServerNow
    IN  IF getFullYear(registrationDate) < MinYear THEN ServerNow ELSE registrationDate

LastOwnerMatchesCurrent(owners, d) ==
    toLowerCase(owners[Len(owners)].address) = toLowerCase(d.owner)

\* The body of the 200 response
BuildResponse(rpc, d, blks) ==
    LET owners == ProcessedOwners(rpc, d, blks)
    IN  IF Len(owners) > 0
        THEN IF LastOwnerMatchesCurrent(owners, d)
             THEN [ owners |-> MatchHistorical(owners, d),
                    currentOwner |-> MatchCurrent(owners, d),
                    expiryDate |-> ExpiryDate(d) ]
             ELSE [ owners |-> MismatchHistorical(owners, d),
                    currentOwner |-> MismatchCurrent(owners, d),
                    expiryDate |-> ExpiryDate(d) ]
        ELSE [ owners |-> <<>>,
               currentOwner |-> CurrentOwnerData(d.owner, NoOwnersStart(d), ExpiryDate(d), NoHash),
               expiryDate |-> ExpiryDate(d) ]

---------------------------------------------------------------------------
(* ENSHistory: the display timeline *)

ENSOwner(address, startDate, endDate, transactionHash, isMarketplace, marketplaceName) ==
    [ address |-> address, startDate |-> startDate, endDate |-> endDate,
      transactionHash |-> transactionHash,
      isMarketplace |-> isMarketplace, marketplaceName |-> marketplaceName ]

OwnerProp(o) ==
    ENSOwner(o.address, o.startDate, o.endDate, o.transactionHash, o.isMarketplace, o.marketplaceName)

CurrentOwnerProp(c) ==
    ENSOwner(c.address, c.startDate, c.endDate, c.transactionHash, FALSE, NoName)

\* `${owner.address.toLowerCase()}-${owner.startDate}`
OwnerKey(o) == <<toLowerCase(o.address), o.startDate>>

\* owners, and currentOwner unless an owner has its address and start date
AllOwners(owners, currentOwner) ==
    IF \E i \in 1..Len(owners) : OwnerKey(owners[i]) = OwnerKey(currentOwner)
    THEN owners
    ELSE Append(owners, currentOwner)

\* Keep the first owner of each key
RECURSIVE DeduplicateOwners(_)
DeduplicateOwners(sortedOwners) ==
    IF sortedOwners = <<>>
    THEN <<>>
    ELSE LET n == Len(sortedOwners)
             before == SubSeq(sortedOwners, 1, n - 1)
         IN  IF \E i \in 1..(n - 1) : OwnerKey(sortedOwners[i]) = OwnerKey(sortedOwners[n])
             THEN DeduplicateOwners(before)
             ELSE Append(DeduplicateOwners(before), sortedOwners[n])

FinalOwners(owners, currentOwner) ==
    DeduplicateOwners(SortByStartDate(AllOwners(owners, currentOwner)))

IsCurrentOwner(owner, currentOwner) == OwnerKey(owner) = OwnerKey(currentOwner)

\* The end date shown: the owner's own, or the expiry for the current owner
DisplayEndDate(owner, currentOwner) ==
    IF owner.endDate # Undefined
    THEN owner.endDate
    ELSE IF IsCurrentOwner(owner, currentOwner) /\ currentOwner.endDate # Undefined
    THEN currentOwner.endDate
    ELSE Undefined

\* A variant that measures every period with an end, the current one too, to its end
DisplayDurationToEnd(owner, currentOwner, now) ==
    IF DisplayEndDate(owner, currentOwner) # Undefined
    THEN DisplayEndDate(owner, currentOwner) - owner.startDate
    ELSE now - owner.startDate

DisplayDuration(owner, currentOwner, now) ==
    IF IsCurrentOwner(owner, currentOwner)
    THEN now - owner.startDate
    ELSE IF DisplayEndDate(owner, currentOwner) # Undefined
    THEN DisplayEndDate(owner, currentOwner) - owner.startDate
    ELSE now - owner.startDate

OwnerPeriod(owner, currentOwner, now) ==
    [ owner |-> owner.address,
      startDate |-> owner.startDate,
      endDate |-> DisplayEndDate(owner, currentOwner),
      isDormant |-> FALSE,
      isMarketplace |-> owner.isMarketplace,
      marketplaceName |-> owner.marketplaceName,
      duration |-> DisplayDuration(owner, currentOwner, now) ]

DormantPeriod(currentEndDate, nextStartDate) ==
    [ owner |-> ZeroAddress,
      startDate |-> currentEndDate,
      endDate |-> nextStartDate,
      isDormant |-> TRUE,
      isMarketplace |-> FALSE,
      marketplaceName |-> NoName,
      duration |-> nextStartDate - currentEndDate ]

\* A variant that does not skip the entries without duration
PeriodsOfKeepsEmpty(finalOwners, currentOwner, now, i) ==
    LET owner == finalOwners[i]
        endDate == DisplayEndDate(owner, currentOwner)
        currentEndDate == IF endDate # Undefined THEN endDate ELSE now
    IN  <<OwnerPeriod(owner, currentOwner, now)>>
        \o (IF i < Len(finalOwners) /\ finalOwners[i + 1].startDate > currentEndDate
            THEN <<DormantPeriod(currentEndDate, finalOwners[i + 1].startDate)>>
            ELSE <<>>)

\* The periods pushed by iteration i of the loop over finalOwners
PeriodsOf(finalOwners, currentOwner, now, i) ==
    LET owner == finalOwners[i]
        endDate == DisplayEndDate(owner, currentOwner)
        currentEndDate == IF endDate # Undefined THEN endDate ELSE now
    IN  IF DisplayDuration(owner, currentOwner, now) <= 0
        THEN <<>>
        ELSE <<OwnerPeriod(owner, currentOwner, now)>>
             \o (IF i < Len(finalOwners) /\ finalOwners[i + 1].startDate > currentEndDate
                 THEN <<DormantPeriod(currentEndDate, finalOwners[i + 1].startDate)>>
                 ELSE <<>>)

RECURSIVE TimelineLoop(_, _, _, _)
TimelineLoop(finalOwners, currentOwner, now, i) ==
    IF i > Len(finalOwners)
    THEN <<>>
    ELSE PeriodsOf(finalOwners, currentOwner, now, i)
         \o TimelineLoop(finalOwners, currentOwner, now, i + 1)

BuildTimeline(owners, currentOwner, now) ==
    TimelineLoop(FinalOwners(owners, currentOwner), currentOwner, now, 1)

---------------------------------------------------------------------------
(* The request as a state machine: one action per stretch between awaits *)

NoData == [owner |-> ZeroAddress, createdAt |-> 0, registrations |-> <<>>, transfers |-> <<>>]
NoResponse == [name |-> NoName,
               owners |-> <<>>,
               currentOwner |-> CurrentOwnerData(ZeroAddress, 0, Undefined, NoHash),
               expiryDate |-> Undefined]

\* The domains the subgraph may hold: an owner, a creation date, registration
\* records, and the transfers ordered by block number
Domains ==
    [ owner : DomainOwners, createdAt : {CreatedAt},
      registrations : RegistrationLists, transfers : TransferLists ]

\* Domains without registration records whose transfers may pass through a
\* marketplace contract
MarketDomains ==
    [ owner : {OwnerAChecksum, OwnerB}, createdAt : {CreatedAt},
      registrations : {<<>>}, transfers : MarketTransferLists ]

\* Domains with several registration records and a short transfer log
RegisteredDomains ==
    [ owner : {OwnerAChecksum, OwnerB}, createdAt : {CreatedAt},
      registrations : SeveralRegistrationLists,
      transfers : TransferListsOf(TransferOwners, MaxRegisteredTransfers) ]

NoError == "none"
NoEnsName == "null"               \* searchParams.get("name") gave null

\* An upstream request and how it was answered
Request(request, answer) == [request |-> request, answer |-> answer]

\* The leaderboard body before there is one, and the cache while it is null
NoBody == [leaderboard |-> <<>>, totalTransfersAnalyzed |-> Undefined]
NoCache == [data |-> NoBody, timestamp |-> Undefined]

\* A leaderboard request that has not arrived
IdleRequest ==
    [ pc |-> "idle", now |-> Undefined, seen |-> NoCache, orderDirection |-> "desc", i |-> 0,
      allTransfers |-> <<>>, requests |-> <<>>, status |-> 0, error |-> NoError,
      body |-> NoBody ]

\* The leaderboard server starts with cachedData = null; `clients` are the
\* requests that will arrive, `tables` what the subgraph may hold
LeaderboardServes(tables, clients) ==
    /\ transfersTable \in tables
    /\ clock = 0
    /\ cachedData = NoCache
    /\ leaderboardRequests = [r \in clients |-> IdleRequest]

NoLeaderboardError == "null"

\* The Leaderboard component after its first render: collapsed, nothing
\* fetched, its effect about to run
ComponentMounted ==
    /\ isExpanded = FALSE
    /\ leaderboardData = NoBody
    /\ loading = FALSE
    /\ leaderboardError = NoLeaderboardError
    /\ hasFetched = FALSE
    /\ effectPending = TRUE
    /\ inFlight = <<>>

\* What api.ensdata.net may do with the request for the current owner: answer
\* with an avatar_small, answer without one, answer with a status that is
\* not OK, or fail (fetch or json() throws)
AvatarAnswers == {"avatar", "noAvatar", "notOk", "throws"}

AvatarSmall == "https://ensdata.net/media/avatar/name.eth"

\* const normalizedName = ensName.endsWith(".eth") ? ensName : `${ensName}.eth`
NormalizedName(name) ==
    CASE name = "name" -> "name.eth"
      [] OTHER -> name

\* The body with the name it is returned under
Named(body, name) ==
    [ name |-> name, owners |-> body.owners, currentOwner |-> body.currentOwner,
      expiryDate |-> body.expiryDate ]

\* if (ensDataResponse.ok) { if (ensData.avatar_small) currentOwnerData.avatar = ... }
\* inside a try whose catch only logs: the field is set or stays absent
WithAvatar(body, answer) ==
    IF answer = "avatar"
    THEN [ body EXCEPT !.currentOwner =
             [ address |-> body.currentOwner.address,
               startDate |-> body.currentOwner.startDate,
               endDate |-> body.currentOwner.endDate,
               transactionHash |-> body.currentOwner.transactionHash,
               avatar |-> AvatarSmall ] ]
    ELSE body

\* A request for one of `names` arrives, for a domain of `domains`, while the
\* avatar service is in one of the conditions `avatars`
RequestOf(names, domains, avatars) ==
    /\ LeaderboardServes({<<>>}, {})
    /\ ComponentMounted
    /\ ensName \in names
    /\ ensdata \in avatars
    /\ settled = <<>>
    /\ subgraph \in domains
    /\ pc = "query"
    /\ rpcUrl \in BOOLEAN
    /\ data = NoData
    /\ blocks = <<>>
    /\ response = NoResponse
    /\ status = 0
    /\ error = NoError
    /\ requests = <<>>
    /\ timeline = <<>>

\* A request arrives for a domain of `domains`
RequestFor(domains) == RequestOf({"name.eth", NoEnsName}, domains, {"avatar"})

Init == RequestFor(Domains)

InitMarket == RequestFor(MarketDomains)

InitRegistered == RequestFor(RegisteredDomains)

\* return NextResponse.json({ error: ... }, { status: ... })
RespondError(code, failure) ==
    /\ status' = code
    /\ error' = failure
    /\ pc' = "failed"

\* The domain was found: it must have an owner, and then its transfers are processed
DomainFound(domain) ==
    /\ data' = domain
    /\ IF domain.owner = ZeroAddress
       THEN RespondError(404, "Unresolved")
       ELSE /\ pc' = IF rpcUrl THEN "blocks" ELSE "process"
            /\ UNCHANGED <<status, error>>

\* What the subgraph may do with a request: answer with the domain, answer
\* with no domain, refuse with HTTP 429, or fail in any other way
SubgraphAnswers == {"domain", "none", "rateLimited", "error"}

\* if (!ensName) return NextResponse.json({ error: ... }, { status: 400 })
RejectMissingName ==
    /\ pc = "query"
    /\ ensName = NoEnsName
    /\ RespondError(400, "NameRequired")
    /\ UNCHANGED <<ensName, subgraph, ensdata, rpcUrl, data, blocks, response, requests, settled, timeline>>
    /\ UNCHANGED <<leaderboardVars, componentVars>>

\* A variant that treats a 429 of the by-name query like an empty answer and
\* goes on to the namehash query
QueryDomainFallsBackWhenLimited ==
    /\ pc = "query"
    /\ ensName # NoEnsName
    /\ \E answer \in SubgraphAnswers :
        /\ requests' = Append(requests, Request("GET_DOMAIN_BY_NAME", answer))
        /\ CASE answer = "domain" -> DomainFound(subgraph)
             [] answer \in {"none", "rateLimited"} ->
                    /\ data' = NoData
                    /\ pc' = "hash"
                    /\ UNCHANGED <<status, error>>
             [] answer = "error" ->
                    /\ RespondError(500, "Failed")
                    /\ UNCHANGED data
    /\ UNCHANGED <<ensName, subgraph, ensdata, rpcUrl, blocks, response, settled, timeline>>
    /\ UNCHANGED <<leaderboardVars, componentVars>>

\* client.request(GET_DOMAIN_BY_NAME): the domain, its registrations and its
\* transfers; a 429 is reported, any other error goes to the outer catch
QueryDomain ==
    /\ pc = "query"
    /\ ensName # NoEnsName
    /\ \E answer \in SubgraphAnswers :
        /\ requests' = Append(requests, Request("GET_DOMAIN_BY_NAME", answer))
        /\ CASE answer = "domain" -> DomainFound(subgraph)
             [] answer = "none" ->
                    /\ data' = NoData
                    /\ pc' = "hash"
                    /\ UNCHANGED <<status, error>>
             [] answer = "rateLimited" ->
                    /\ RespondError(429, "RateLimited")
                    /\ UNCHANGED data
             [] answer = "error" ->
                    /\ RespondError(500, "Failed")
                    /\ UNCHANGED data
    /\ UNCHANGED <<ensName, subgraph, ensdata, rpcUrl, blocks, response, settled, timeline>>
    /\ UNCHANGED <<leaderboardVars, componentVars>>

\* A variant that re-throws the other errors of the namehash query, as the
\* by-name query does
QueryByNameHashRethrows ==
    /\ pc = "hash"
    /\ \E answer \in SubgraphAnswers :
        /\ requests' = Append(requests, Request("GET_DOMAIN_HISTORY", answer))
        /\ CASE answer = "domain" -> DomainFound(subgraph)
             [] answer = "none" ->
                    /\ RespondError(404, "NotFound")
                    /\ UNCHANGED data
             [] answer = "rateLimited" ->
                    /\ RespondError(429, "RateLimited")
                    /\ UNCHANGED data
             [] answer = "error" ->
                    /\ RespondError(500, "Failed")
                    /\ UNCHANGED data
    /\ UNCHANGED <<ensName, subgraph, ensdata, rpcUrl, blocks, response, settled, timeline>>
    /\ UNCHANGED <<leaderboardVars, componentVars>>

\* No domain by name: client.request(GET_DOMAIN_HISTORY) by namehash; a 429
\* is reported, any other error is swallowed and the domain stays unknown
QueryByNameHash ==
    /\ pc = "hash"
    /\ \E answer \in SubgraphAnswers :
        /\ requests' = Append(requests, Request("GET_DOMAIN_HISTORY", answer))
        /\ CASE answer = "domain" -> DomainFound(subgraph)
             [] answer = "none" ->
                    /\ RespondError(404, "NotFound")
                    /\ UNCHANGED data
             [] answer = "rateLimited" ->
                    /\ RespondError(429, "RateLimited")
                    /\ UNCHANGED data
             [] answer = "error" ->
                    /\ RespondError(404, "NotFound")
                    /\ UNCHANGED data
    /\ UNCHANGED <<ensName, subgraph, ensdata, rpcUrl, blocks, response, settled, timeline>>
    /\ UNCHANGED <<leaderboardVars, componentVars>>

\* Promise.all(blockPromises): one getBlock per transfer, each resolved to its
\* block or, when it failed, to null
FetchBlockTimestamps ==
    /\ pc = "blocks"
    /\ \E ok \in [1..Len(data.transfers) -> BOOLEAN] :
        /\ blocks' = [i \in 1..Len(data.transfers) |->
                         IF ok[i]
                         THEN BlockTimestamp(data.transfers[i].blockNumber)
                         ELSE NullBlock]
        /\ requests' = requests \o [i \in 1..Len(data.transfers) |->
                                       Request("getBlock", IF ok[i] THEN "block" ELSE "error")]
    /\ settled' = [i \in 1..Len(data.transfers) |-> i]
    /\ pc' = "process"
    /\ UNCHANGED <<ensName, subgraph, ensdata, rpcUrl, data, response, status, error, timeline>>
    /\ UNCHANGED <<leaderboardVars, componentVars>>

\* A variant in which a failure of the avatar lookup reaches the outer catch
ProcessHistoryAvatarFatal ==
    /\ pc = "process"
    /\ requests' = Append(requests, Request("ensdata", ensdata))
    /\ IF ensdata \in {"notOk", "throws"}
       THEN /\ RespondError(500, "Failed")
            /\ UNCHANGED response
       ELSE /\ response' = WithAvatar(Named(BuildResponse(rpcUrl, data, blocks),
                                           NormalizedName(ensName)), ensdata)
            /\ status' = 200
            /\ pc' = "responded"
            /\ UNCHANGED error
    /\ UNCHANGED <<ensName, subgraph, ensdata, rpcUrl, data, blocks, settled, timeline>>
    /\ UNCHANGED <<leaderboardVars, componentVars>>

\* Period construction, then the avatar lookup for the current owner, through
\* to NextResponse.json
ProcessHistory ==
    /\ pc = "process"
    /\ requests' = Append(requests, Request("ensdata", ensdata))
    /\ response' = WithAvatar(Named(BuildResponse(rpcUrl, data, blocks),
                                    NormalizedName(ensName)), ensdata)
    /\ status' = 200
    /\ pc' = "responded"
    /\ UNCHANGED <<ensName, subgraph, ensdata, rpcUrl, data, blocks, error, settled, timeline>>
    /\ UNCHANGED <<leaderboardVars, componentVars>>

\* The page hands the response to ENSHistory, which builds its timeline
RenderTimeline ==
    /\ pc = "responded"
    /\ timeline' = BuildTimeline([i \in 1..Len(response.owners) |-> OwnerProp(response.owners[i])],
                                 CurrentOwnerProp(response.currentOwner), BrowserNow)
    /\ pc' = "rendered"
    /\ UNCHANGED <<ensName, subgraph, ensdata, rpcUrl, data, blocks, response, status, error,
                   requests, settled>>
    /\ UNCHANGED <<leaderboardVars, componentVars>>

Next ==
    \/ RejectMissingName
    \/ QueryDomain
    \/ QueryByNameHash
    \/ FetchBlockTimestamps
    \/ ProcessHistory
    \/ RenderTimeline

Spec == Init /\ [][Next]_vars

\* The same endpoint, asked for domains that were sold through a marketplace
SpecMarket == InitMarket /\ [][Next]_vars

\* The same endpoint, asked for domains that were registered more than once
SpecRegistered == InitRegistered /\ [][Next]_vars

\* Short transfer logs with at most one registration record
AvatarDomains ==
    [ owner : {OwnerAChecksum, OwnerB}, createdAt : {CreatedAt},
      registrations : RegistrationLists,
      transfers : TransferListsOf(TransferOwners, MaxAvatarTransfers) ]

InitAvatar == RequestOf({"name.eth", "name", NoEnsName}, AvatarDomains, AvatarAnswers)

\* The same endpoint, with the avatar service in each of its conditions
SpecAvatar == InitAvatar /\ [][Next]_vars

\* Domains without registration records whose log is long enough to hold a
\* transfer, its duplicate and a transfer on either side
DuplicateLogDomains ==
    [ owner : {OwnerAChecksum, OwnerB}, createdAt : {CreatedAt},
      registrations : {<<>>}, transfers : TransferListsOf(TransferOwners, MaxLogTransfers) ]

InitDuplicates == RequestFor(DuplicateLogDomains)

\* The same endpoint, asked for domains whose log repeats transfer events
SpecDuplicates == InitDuplicates /\ [][Next]_vars

\* data.transfers.map(t => provider.getBlock(...).catch(() => null)): every
\* lookup is issued, none has settled
IssueLookups ==
    /\ pc = "blocks"
    /\ blocks' = [i \in 1..Len(data.transfers) |-> Pending]
    /\ requests' = requests \o [i \in 1..Len(data.transfers) |-> Request("getBlock", "pending")]
    /\ settled' = <<>>
    /\ pc' = "lookups"
    /\ UNCHANGED <<ensName, subgraph, ensdata, rpcUrl, data, response, status, error, timeline>>
    /\ UNCHANGED <<leaderboardVars, componentVars>>

\* The value a lookup settles to: its block, or null through its catch
SettledBlock(i, ok) ==
    IF ok THEN BlockTimestamp(data.transfers[i].blockNumber) ELSE NullBlock

\* The lookups that have not settled
Unsettled == { i \in 1..Len(data.transfers) : \A k \in 1..Len(settled) : settled[k] # i }

\* The place of the lookup for transfers[i] in the log of requests
LookupEntry(i) == Len(requests) - Len(data.transfers) + i

\* A variant that collects the blocks in the order in which the lookups settle
SettleLookupInCompletionOrder ==
    /\ pc = "lookups"
    /\ \E i \in Unsettled, ok \in BOOLEAN :
        /\ blocks' = [blocks EXCEPT ![Len(settled) + 1] = SettledBlock(i, ok)]
        /\ requests' = [requests EXCEPT ![LookupEntry(i)].answer =
                                            IF ok THEN "block" ELSE "error"]
        /\ settled' = Append(settled, i)
    /\ UNCHANGED <<ensName, subgraph, ensdata, pc, rpcUrl, data, response, status, error, timeline>>
    /\ UNCHANGED <<leaderboardVars, componentVars>>

\* One lookup settles, in any order: Promise.all keeps its value at the
\* position of its promise
SettleLookup ==
    /\ pc = "lookups"
    /\ \E i \in Unsettled, ok \in BOOLEAN :
        /\ blocks' = [blocks EXCEPT ![i] = SettledBlock(i, ok)]
        /\ requests' = [requests EXCEPT ![LookupEntry(i)].answer =
                                            IF ok THEN "block" ELSE "error"]
        /\ settled' = Append(settled, i)
    /\ UNCHANGED <<ensName, subgraph, ensdata, pc, rpcUrl, data, response, status, error, timeline>>
    /\ UNCHANGED <<leaderboardVars, componentVars>>

\* await Promise.all(blockPromises) resumes once every lookup has settled
AwaitLookups ==
    /\ pc = "lookups"
    /\ Unsettled = {}
    /\ pc' = "process"
    /\ UNCHANGED <<ensName, subgraph, ensdata, rpcUrl, data, blocks, response, status, error,
                   requests, settled, timeline>>
    /\ UNCHANGED <<leaderboardVars, componentVars>>

\* The endpoint with the block lookups settling one by one
NextLookups ==
    \/ RejectMissingName
    \/ QueryDomain
    \/ QueryByNameHash
    \/ IssueLookups
    \/ SettleLookup
    \/ AwaitLookups
    \/ ProcessHistory
    \/ RenderTimeline

LookupDomains ==
    [ owner : {OwnerAChecksum, OwnerB}, createdAt : {CreatedAt},
      registrations : {<<>>}, transfers : TransferListsOf(TransferOwners, MaxLookups) ]

InitLookups == RequestFor(LookupDomains)

SpecLookups == InitLookups /\ [][NextLookups]_vars

---------------------------------------------------------------------------
(* The leaderboard endpoint (GET /api/leaderboard): pure parts *)

\* The subgraph's transfers: an id, the domain's name (NoDomain when the
\* transfer has no domain), a block number and the new owner
NoDomain == "null"
TableNames == {"one.eth", "One.eth", NoDomain}
TableBlocks == {9000000, 9000005}

LowerName(name) ==
    CASE name = "One.eth" -> "one.eth"
      [] OTHER -> name

TransferTablesOf(names, blockNumbers) ==
    UNION { { [i \in 1..n |-> [id |-> TxIds[i], name |-> ns[i], blockNumber |-> bs[i],
                               owner |-> os[i]]] :
                ns \in [1..n -> names],
                bs \in { b \in [1..n -> blockNumbers] : NonDecreasing(b) },
                os \in [1..n -> TransferOwners] } :
            n \in 0..MaxTable }

TransferTables == TransferTablesOf(TableNames, TableBlocks)

\* The transfers of one domain in one block
OneDomainTables == TransferTablesOf({"one.eth"}, {9000000})

Reverse(s) == [k \in 1..Len(s) |-> s[Len(s) + 1 - k]]

\* transfers(first, skip, orderBy: blockNumber, orderDirection)
Batch(table, orderDirection, skip, first) ==
    LET ordered == IF orderDirection = "asc" THEN table ELSE Reverse(table)
        last == IF skip + first < Len(ordered) THEN skip + first ELSE Len(ordered)
    IN  SubSeq(ordered, skip + 1, last)

\* The keys of domainTransfers, in the order in which the Map received them
RECURSIVE DomainNames(_)
DomainNames(transfers) ==
    IF transfers = <<>>
    THEN <<>>
    ELSE LET earlier == DomainNames(SubSeq(transfers, 1, Len(transfers) - 1))
             transfer == transfers[Len(transfers)]
         IN  IF transfer.name = NoDomain
                \/ \E k \in 1..Len(earlier) : earlier[k] = LowerName(transfer.name)
             THEN earlier
             ELSE Append(earlier, LowerName(transfer.name))

\* domainTransfers.get(domainName)
TransfersOfDomain(transfers, domainName) ==
    LET OfDomain(t) == t.name # NoDomain /\ LowerName(t.name) = domainName
    IN  SelectSeq(transfers, OfDomain)

\* [...transfers].sort((a, b) => Number(a.blockNumber) - Number(b.blockNumber)),
\* a stable sort
RECURSIVE InsertByBlock(_, _)
InsertByBlock(sorted, x) ==
    IF sorted = <<>>
    THEN <<x>>
    ELSE IF sorted[Len(sorted)].blockNumber <= x.blockNumber
    THEN Append(sorted, x)
    ELSE Append(InsertByBlock(SubSeq(sorted, 1, Len(sorted) - 1), x), sorted[Len(sorted)])

RECURSIVE SortByBlockNumber(_)
SortByBlockNumber(transfers) ==
    IF transfers = <<>>
    THEN <<>>
    ELSE InsertByBlock(SortByBlockNumber(SubSeq(transfers, 1, Len(transfers) - 1)),
                       transfers[Len(transfers)])

\* The loop over sortedTransfers: a transfer to the previous owner is
\* skipped, a transfer to another owner is a change
RECURSIVE ownershipChangeCount(_)
ownershipChangeCount(sortedTransfers) ==
    IF Len(sortedTransfers) <= 1
    THEN 0
    ELSE LET n == Len(sortedTransfers)
         IN  ownershipChangeCount(SubSeq(sortedTransfers, 1, n - 1))
             + (IF toLowerCase(sortedTransfers[n].owner) = toLowerCase(sortedTransfers[n - 1].owner)
                THEN 0
                ELSE 1)

\* The entries of domainCounts, in the order of the Map: only domains with
\* at least one ownership change
domainCounts(transfers) ==
    LET names == DomainNames(transfers)
        counted == [k \in 1..Len(names) |->
                      [ name |-> names[k],
                        transferCount |->
                            ownershipChangeCount(
                                SortByBlockNumber(TransfersOfDomain(transfers, names[k]))) ]]
        Changed(entry) == entry.transferCount > 0
    IN  SelectSeq(counted, Changed)

\* .sort((a, b) => b.transferCount - a.transferCount), a stable sort
RECURSIVE InsertByCount(_, _)
InsertByCount(sorted, x) ==
    IF sorted = <<>>
    THEN <<x>>
    ELSE IF sorted[Len(sorted)].transferCount >= x.transferCount
    THEN Append(sorted, x)
    ELSE Append(InsertByCount(SubSeq(sorted, 1, Len(sorted) - 1), x), sorted[Len(sorted)])

RECURSIVE SortByCount(_)
SortByCount(entries) ==
    IF entries = <<>>
    THEN <<>>
    ELSE InsertByCount(SortByCount(SubSeq(entries, 1, Len(entries) - 1)), entries[Len(entries)])

\* .slice(0, 10)
domainTransferCounts(transfers) ==
    LET sorted == SortByCount(domainCounts(transfers))
    IN  SubSeq(sorted, 1, IF Len(sorted) < TopCount THEN Len(sorted) ELSE TopCount)

responseData(allTransfers) ==
    [ leaderboard |-> domainTransferCounts(allTransfers),
      totalTransfersAnalyzed |-> Len(allTransfers) ]

---------------------------------------------------------------------------
(* The leaderboard endpoint as a state machine: the requests share the     *)
(* module-level cachedData and interleave at their awaits                  *)

\* Minutes that may pass between two arrivals
Elapsed == {0, CACHE_TTL \div 2, CACHE_TTL}

\* What the subgraph may do with a batch request: answer with the batch,
\* refuse with HTTP 429, or fail in any other way
BatchAnswers == {"transfers", "rateLimited", "error"}

\* A variant that still serves an entry exactly 30 minutes old
CacheFreshAtTTL(now) ==
    /\ cachedData # NoCache
    /\ now - cachedData.timestamp <= CACHE_TTL

\* if (cachedData && (now - cachedData.timestamp) < CACHE_TTL)
CacheFresh(now) ==
    /\ cachedData # NoCache
    /\ now - cachedData.timestamp < CACHE_TTL

\* A request arrives: const now = Date.now(), then the cache check, which
\* answers from the cache or starts the descending fetch
Arrive(r) ==
    /\ leaderboardRequests[r].pc = "idle"
    /\ \E elapsed \in Elapsed :
        LET now == clock + elapsed
        IN  /\ now <= MaxClock
            /\ clock' = now
            /\ leaderboardRequests' =
                 [leaderboardRequests EXCEPT ![r] =
                    IF CacheFresh(now)
                    THEN [IdleRequest EXCEPT !.pc = "done", !.now = now, !.seen = cachedData,
                                             !.status = 200, !.body = cachedData.data]
                    ELSE [IdleRequest EXCEPT !.pc = "fetch", !.now = now, !.seen = cachedData]]
    /\ UNCHANGED <<transfersTable, cachedData>>
    /\ UNCHANGED <<historyVars, componentVars>>

\* The entry a batch request leaves in the request's log
BatchRequest(request, answer) ==
    [ orderDirection |-> request.orderDirection, skip |-> request.i * batchSize,
      answer |-> answer ]

\* What a request holds once its batch request was answered: a 429 ends it,
\* a batch is pushed to allTransfers, and the loop goes on to the next batch,
\* to the ascending fetch, or to the response
Answered429(request, answer) ==
    [request EXCEPT !.pc = "done", !.status = 429, !.error = "RateLimited",
                    !.requests = Append(@, BatchRequest(request, answer))]

AfterBatch(request, answer, allTransfers, batch) ==
    LET logged == [request EXCEPT !.requests = Append(@, BatchRequest(request, answer)),
                                  !.allTransfers = allTransfers]
        more == /\ answer = "transfers"
                /\ Len(batch) = batchSize
                /\ request.i + 1 < batchesPerDirection
    IN  IF more
        THEN [logged EXCEPT !.i = request.i + 1]
        ELSE IF request.orderDirection = "desc"
        THEN [logged EXCEPT !.orderDirection = "asc", !.i = 0]
        ELSE [logged EXCEPT !.pc = "done", !.status = 200,
                            !.body = responseData(allTransfers)]

\* A variant in which allTransfers is shared by the requests being served
FetchBatchSharedTransfers(r) ==
    /\ leaderboardRequests[r].pc = "fetch"
    /\ \E answer \in BatchAnswers :
        LET request == leaderboardRequests[r]
            batch == IF answer = "transfers"
                     THEN Batch(transfersTable, request.orderDirection,
                                request.i * batchSize, batchSize)
                     ELSE <<>>
            shared == [q \in DOMAIN leaderboardRequests |->
                          IF q # r /\ leaderboardRequests[q].pc = "fetch"
                          THEN [leaderboardRequests[q] EXCEPT !.allTransfers = @ \o batch]
                          ELSE leaderboardRequests[q]]
            after == AfterBatch(request, answer, request.allTransfers \o batch, batch)
        IN  IF answer = "rateLimited"
            THEN /\ leaderboardRequests' =
                        [leaderboardRequests EXCEPT ![r] = Answered429(request, answer)]
                 /\ UNCHANGED cachedData
            ELSE /\ leaderboardRequests' = [shared EXCEPT ![r] = after]
                 /\ IF after.pc = "done"
                    THEN cachedData' = [data |-> after.body, timestamp |-> after.now]
                    ELSE UNCHANGED cachedData
    /\ UNCHANGED <<transfersTable, clock>>
    /\ UNCHANGED <<historyVars, componentVars>>

\* A batch request of fetchBatches is answered, and the request runs to its
\* next await or, after the last batch, through grouping, counting and the
\* cache update to its response
FetchBatch(r) ==
    /\ leaderboardRequests[r].pc = "fetch"
    /\ \E answer \in BatchAnswers :
        LET request == leaderboardRequests[r]
            batch == IF answer = "transfers"
                     THEN Batch(transfersTable, request.orderDirection,
                                request.i * batchSize, batchSize)
                     ELSE <<>>
            after == AfterBatch(request, answer, request.allTransfers \o batch, batch)
        IN  IF answer = "rateLimited"
            THEN /\ leaderboardRequests' =
                        [leaderboardRequests EXCEPT ![r] = Answered429(request, answer)]
                 /\ UNCHANGED cachedData
            ELSE /\ leaderboardRequests' = [leaderboardRequests EXCEPT ![r] = after]
                 /\ IF after.pc = "done"
                    THEN cachedData' = [data |-> after.body, timestamp |-> after.now]
                    ELSE UNCHANGED cachedData
    /\ UNCHANGED <<transfersTable, clock>>
    /\ UNCHANGED <<historyVars, componentVars>>

NextLeaderboard ==
    \/ \E r \in DOMAIN leaderboardRequests : Arrive(r)
    \/ \E r \in DOMAIN leaderboardRequests : FetchBatch(r)

\* No request for a domain's history is being served
NoHistoryRequest ==
    /\ ensName = NoEnsName
    /\ ensdata = "avatar"
    /\ settled = <<>>
    /\ subgraph = NoData
    /\ pc = "idle"
    /\ rpcUrl = FALSE
    /\ data = NoData
    /\ blocks = <<>>
    /\ response = NoResponse
    /\ status = 0
    /\ error = NoError
    /\ requests = <<>>
    /\ timeline = <<>>

\* Two leaderboard requests that may be served at once
InitLeaderboard ==
    /\ NoHistoryRequest
    /\ LeaderboardServes(OneDomainTables, {"r1", "r2"})
    /\ ComponentMounted

SpecLeaderboard == InitLeaderboard /\ [][NextLeaderboard]_vars

\* One leaderboard request, whatever the subgraph holds
InitCounting ==
    /\ NoHistoryRequest
    /\ LeaderboardServes(TransferTables, {"r1"})
    /\ ComponentMounted

SpecCounting == InitCounting /\ [][NextLeaderboard]_vars

---------------------------------------------------------------------------
(* The Leaderboard component: its header toggles isExpanded, its effect    *)
(* fetches /api/leaderboard, and the fetches resolve in any order          *)

\* What /api/leaderboard may do with a fetch: answer with a leaderboard,
\* answer 429, answer with another error status, or fail (fetch throws)
FetchOutcomes == {"ok", "rateLimited", "failed", "throws"}

\* The leaderboard a fetch returns
ServedBody == responseData(<<>>)

\* const toggleExpanded = () => setIsExpanded(!isExpanded), and the render
\* after which the effect runs, its dependency having changed; the effect of
\* one click has run before the next click is handled
toggleExpanded ==
    /\ ~effectPending
    /\ isExpanded \/ hasFetched \/ Len(inFlight) < MaxInFlight
    /\ isExpanded' = ~isExpanded
    /\ effectPending' = TRUE
    /\ UNCHANGED <<hasFetched, loading, leaderboardError, leaderboardData, inFlight>>
    /\ UNCHANGED <<historyVars, leaderboardVars>>

\* useEffect(..., [isExpanded, hasFetched]): if (isExpanded && !hasFetched)
\* fetchLeaderboard() runs up to its await fetch("/api/leaderboard")
RunEffect ==
    /\ effectPending
    /\ effectPending' = FALSE
    /\ IF isExpanded /\ ~hasFetched
       THEN /\ loading' = TRUE
            /\ leaderboardError' = NoLeaderboardError
            /\ inFlight' = Append(inFlight, "fetch")
       ELSE UNCHANGED <<loading, leaderboardError, inFlight>>
    /\ UNCHANGED <<isExpanded, hasFetched, leaderboardData>>
    /\ UNCHANGED <<historyVars, leaderboardVars>>

\* The pending fetches without the k-th
Without(fetches, k) == SubSeq(fetches, 1, k - 1) \o SubSeq(fetches, k + 1, Len(fetches))

\* await fetch(...) resumes: with a response, whose body is then awaited,
\* or with an exception, which the catch reports before finally clears loading
FetchResponds ==
    /\ \E k \in 1..Len(inFlight), outcome \in FetchOutcomes :
        /\ inFlight[k] = "fetch"
        /\ IF outcome = "throws"
           THEN /\ inFlight' = Without(inFlight, k)
                /\ leaderboardError' = "Failed"
                /\ loading' = FALSE
           ELSE /\ inFlight' = [inFlight EXCEPT ![k] = outcome]
                /\ UNCHANGED <<leaderboardError, loading>>
    /\ UNCHANGED <<isExpanded, hasFetched, leaderboardData, effectPending>>
    /\ UNCHANGED <<historyVars, leaderboardVars>>

\* await response.json() resumes: an error body sets the error, a
\* leaderboard sets data and hasFetched; finally clears loading
BodyParsed ==
    /\ \E k \in 1..Len(inFlight) :
        /\ inFlight[k] # "fetch"
        /\ inFlight' = Without(inFlight, k)
        /\ loading' = FALSE
        /\ IF inFlight[k] = "ok"
           THEN /\ leaderboardData' = ServedBody
                /\ hasFetched' = TRUE
                /\ effectPending' = (effectPending \/ ~hasFetched)
                /\ UNCHANGED leaderboardError
           ELSE /\ leaderboardError' =
                        IF inFlight[k] = "rateLimited" THEN "RateLimited" ELSE "Failed"
                /\ UNCHANGED <<leaderboardData, hasFetched, effectPending>>
    /\ UNCHANGED isExpanded
    /\ UNCHANGED <<historyVars, leaderboardVars>>

NextComponent ==
    \/ toggleExpanded
    \/ RunEffect
    \/ FetchResponds
    \/ BodyParsed

InitComponent ==
    /\ NoHistoryRequest
    /\ LeaderboardServes({<<>>}, {})
    /\ ComponentMounted

SpecComponent == InitComponent /\ [][NextComponent]_vars

---------------------------------------------------------------------------
(* Properties of the response and of the timeline *)

Responded == pc \in {"responded", "rendered"}
Historical == response.owners
Current == response.currentOwner
Returned == Historical \o <<Current>>

\* The owners list as it stood when the current owner was separated from it
Processed == ProcessedOwners(rpcUrl, data, blocks)

\* The last owner of that list is not the present owner
Mismatch == Responded /\ Len(Processed) > 0 /\ ~LastOwnerMatchesCurrent(Processed, data)

AllLookupsSucceeded == rpcUrl /\ \A i \in 1..Len(blocks) : blocks[i] # NullBlock

\* The instant the request resolved for transfers[i]
ResolvedInstant(i) ==
    IF rpcUrl
    THEN TransferTimestamp(data.transfers, blocks, i)
    ELSE EstimatedPeriod(data, i).startDate

\* C1: whenever the historical list is not empty, the end of its last period
\* is the start of the current period, in the match and in the mismatch branch.
C1_LastEndIsCurrentStart ==
    Responded /\ Len(Historical) > 0
        => Historical[Len(Historical)].endDate = Current.startDate

\* C2: every returned period (each historical one and the current one) that
\* has an end instant has end - start > 0.
C2_PositiveDuration ==
    Responded =>
        \A k \in 1..Len(Returned) :
            Returned[k].endDate # Undefined
                => Returned[k].endDate - Returned[k].startDate > 0

\* C3: in the mismatch branch the current period is owned by the present
\* owner, does not start before the last transfer's resolved instant, and the
\* last historical period ends exactly where it starts.
C3_SynthesizedCurrentFollowsLastTransfer ==
    Mismatch =>
        /\ Current.address = data.owner
        /\ Current.startDate >= ResolvedInstant(Len(data.transfers))
        /\ Historical[Len(Historical)].endDate = Current.startDate

\* transfers[i] and transfers[i + 1] have the same owner and block, and both
\* block lookups succeeded
DuplicatePair(i) ==
    /\ rpcUrl
    /\ i \in 1..(Len(data.transfers) - 1)
    /\ blocks[i] # NullBlock
    /\ blocks[i + 1] # NullBlock
    /\ data.transfers[i].blockNumber = data.transfers[i + 1].blockNumber
    /\ toLowerCase(data.transfers[i].owner) = toLowerCase(data.transfers[i + 1].owner)

\* C4: for a duplicate pair the result holds exactly one period of that owner
\* starting at that block's instant.
C4_DuplicateLeavesOnePeriod ==
    Responded =>
        \A i \in 1..(Len(data.transfers) - 1) :
            DuplicatePair(i) =>
                Cardinality({ k \in 1..Len(Returned) :
                                /\ toLowerCase(Returned[k].address)
                                       = toLowerCase(data.transfers[i].owner)
                                /\ Returned[k].startDate = blocks[i] }) = 1

\* C5: consecutive historical periods do not overlap, whatever lookups failed.
C5_NoOverlap ==
    Responded =>
        \A i \in 1..(Len(Historical) - 1) :
            Historical[i].endDate <= Historical[i + 1].startDate

\* C6: no two consecutive returned periods (the historical list followed by
\* the current period) have the same owner, compared case-insensitively.
C6_NoSameOwnerNeighbours ==
    Responded =>
        \A k \in 1..(Len(Returned) - 1) :
            toLowerCase(Returned[k].address) # toLowerCase(Returned[k + 1].address)

\* C7: the historical list is non-decreasing by start instant.
C7_HistoricalSortedByStart ==
    Responded =>
        \A i \in 1..(Len(Historical) - 1) :
            Historical[i].startDate <= Historical[i + 1].startDate

\* The owners list before the sort
BeforeSort == ApplyRegistration(ConstructOwners(rpcUrl, data, blocks), data)

\* C7's case: the list was built out of order, and two historical periods
\* with different starts were returned
C7_Witness ==
    /\ Responded
    /\ \E i \in 1..(Len(BeforeSort) - 1) : BeforeSort[i].startDate > BeforeSort[i + 1].startDate
    /\ Len(Historical) >= 2
    /\ Historical[1].startDate < Historical[2].startDate

\* C8: every historical period has an end instant.
C8_HistoricalClosed ==
    Responded => \A i \in 1..Len(Historical) : Historical[i].endDate # Undefined

RECURSIVE SumOfDurations(_)
SumOfDurations(periods) ==
    IF periods = <<>> THEN 0 ELSE periods[1].duration + SumOfDurations(Tail(periods))

\* The earliest start instant of the owners ENSHistory was given
EarliestStart ==
    FinalOwners([i \in 1..Len(Historical) |-> OwnerProp(Historical[i])],
                CurrentOwnerProp(Current))[1].startDate

ScenarioA ==
    /\ Responded
    /\ AllLookupsSucceeded
    /\ Len(data.registrations) = 0
    /\ Len(data.transfers) >= 1
    /\ \A i \in 1..(Len(data.transfers) - 1) :
           /\ blocks[i] < blocks[i + 1]
           /\ toLowerCase(data.transfers[i].owner) # toLowerCase(data.transfers[i + 1].owner)
    /\ toLowerCase(data.transfers[Len(data.transfers)].owner) = toLowerCase(data.owner)

\* C10: in that scenario the historical list is exactly the periods
\* (owner_i, t_i, t_(i+1)) of every transfer but the last, in order, and the
\* current period is the present owner's, from t_last, with no end (there is
\* no registration, hence no expiry).
C10_ScenarioA ==
    ScenarioA =>
        LET n == Len(data.transfers)
        IN  /\ Len(Historical) = n - 1
            /\ \A i \in 1..(n - 1) :
                   /\ Historical[i].address = data.transfers[i].owner
                   /\ Historical[i].startDate = blocks[i]
                   /\ Historical[i].endDate = blocks[i + 1]
            /\ Current.address = data.owner
            /\ Current.startDate = blocks[n]
            /\ Current.endDate = Undefined
            /\ response.expiryDate = Undefined

\* C10's case with three transfers: two historical periods and the current one
C10_Witness == ScenarioA /\ Len(data.transfers) = 3 /\ Len(Historical) = 2

---------------------------------------------------------------------------
(* Marketplace classification *)

\* transfers[i] has a transfer before and after it, both within 10 blocks,
\* and its owner differs from both neighbours' owners
RapidTriple(i) ==
    /\ i \in 2..(Len(data.transfers) - 1)
    /\ data.transfers[i].blockNumber - data.transfers[i - 1].blockNumber <= ProximityBlocks
    /\ data.transfers[i + 1].blockNumber - data.transfers[i].blockNumber <= ProximityBlocks
    /\ toLowerCase(data.transfers[i].owner) # toLowerCase(data.transfers[i - 1].owner)
    /\ toLowerCase(data.transfers[i].owner) # toLowerCase(data.transfers[i + 1].owner)

InTable(address) == toLowerCase(address) \in DOMAIN MARKETPLACE_CONTRACTS

\* The historical periods opened by transfers[i]
HistoricalOf(i) ==
    { k \in 1..Len(Historical) :
        Historical[k].transactionHash = data.transfers[i].transactionID }

\* C11: the middle transfer of a rapid triple, when the table does not know
\* its owner, is returned as a historical period flagged isMarketplace with
\* the generic label.
C11_RapidIntermediateFlaggedAndKept ==
    Responded =>
        \A i \in 1..Len(data.transfers) :
            RapidTriple(i) /\ ~InTable(data.transfers[i].owner) =>
                \E k \in HistoricalOf(i) :
                    /\ Historical[k].isMarketplace
                    /\ Historical[k].marketplaceName = "Marketplace"

\* C12: every historical period opened by a transfer to an address of the
\* known-marketplace table is flagged isMarketplace and carries the table's
\* label, with or without a timestamp source.
C12_KnownMarketplaceFlagged ==
    Responded =>
        \A i \in 1..Len(data.transfers) :
            InTable(data.transfers[i].owner) =>
                \A k \in HistoricalOf(i) :
                    /\ Historical[k].isMarketplace
                    /\ Historical[k].marketplaceName
                           = MARKETPLACE_CONTRACTS[toLowerCase(data.transfers[i].owner)]

\* What the block lookups of a request for domain d may resolve to
LookupOutcomes(d) ==
    { [i \in 1..Len(d.transfers) |->
          IF ok[i] THEN BlockTimestamp(d.transfers[i].blockNumber) ELSE NullBlock] :
      ok \in [1..Len(d.transfers) -> BOOLEAN] }

\* The classifications given to transfers[i] when its period is constructed
ClassificationsOf(rpc, d, blks, i) ==
    LET constructed == ConstructOwners(rpc, d, blks)
    IN  { <<constructed[k].isMarketplace, constructed[k].marketplaceName>> :
            k \in { j \in 1..Len(constructed) :
                      constructed[j].transactionHash = d.transfers[i].transactionID } }

\* C13: a transfer is classified the same way in this reconciliation and in
\* any other reconciliation of the same transfer log, whatever the block
\* lookups resolve to and whether or not a timestamp source is configured.
C13_ClassificationDependsOnTransfersOnly ==
    Responded =>
        \A rpc \in BOOLEAN : \A blks \in LookupOutcomes(data) :
            \A i \in 1..Len(data.transfers) :
                \A here \in ClassificationsOf(rpcUrl, data, blocks, i) :
                    \A there \in ClassificationsOf(rpc, data, blks, i) :
                        here = there

---------------------------------------------------------------------------
(* Failures *)

Failed == pc = "failed"

\* Some request of the log was answered with `answer`
Answered(request, answer) ==
    \E i \in 1..Len(requests) : requests[i] = Request(request, answer)

\* C14, as stated: the only failures surfaced are NotFound, Unresolved and
\* RateLimited.
C14_OnlyThreeFailures ==
    Failed => error \in {"NotFound", "Unresolved", "RateLimited"}

\* C14, amended: the failures surfaced are NameRequired (400), NotFound (404),
\* Unresolved (404), RateLimited (429) and Failed (500); Failed reports an
\* error of the by-name query that is not a rate limit, and nothing else was
\* requested; an error of the namehash query that is not a rate limit is
\* reported as NotFound; and once block lookups were issued, failed or not,
\* the request does not fail.
C14_SurfacedFailures ==
    /\ Failed =>
           <<status, error>> \in { <<400, "NameRequired">>, <<404, "NotFound">>,
                                   <<404, "Unresolved">>, <<429, "RateLimited">>,
                                   <<500, "Failed">> }
    /\ error = "Failed" <=> requests = <<Request("GET_DOMAIN_BY_NAME", "error")>>
    /\ Answered("GET_DOMAIN_HISTORY", "error") => error = "NotFound"
    /\ Answered("getBlock", "error") => ~Failed /\ (Responded => status = 200)

\* C14's case: the by-name query failed with an error that is not a rate limit
C14_Witness == Failed /\ Answered("GET_DOMAIN_BY_NAME", "error") /\ status = 500

\* C15: a request answered with 429 is the last request the endpoint issues,
\* it is not issued a second time, and the response is RateLimited (429).
C15_RateLimitedStops ==
    \A i \in 1..Len(requests) :
        requests[i].answer = "rateLimited" =>
            /\ i = Len(requests)
            /\ \A j \in 1..(i - 1) : requests[j].request # requests[i].request
            /\ Failed
            /\ status = 429
            /\ error = "RateLimited"

\* C15's case: the namehash query was rate-limited after the by-name query
\* found no domain
C15_Witness ==
    /\ Answered("GET_DOMAIN_BY_NAME", "none")
    /\ Answered("GET_DOMAIN_HISTORY", "rateLimited")
    /\ status = 429

IsGetBlock(r) == r.request = "getBlock"

\* The answers to the block lookups, in the order of the transfers
Lookups == SelectSeq(requests, IsGetBlock)

\* The lookup of the block of transfers[i] failed
LookupFailed(i) == Lookups[i].answer = "error"

\* The periods constructed from the transfers with the blocks that were fetched
Constructed == ConstructOwners(rpcUrl, data, blocks)

\* C16: whatever lookups failed, the request succeeds, and the period of a
\* transfer starts at genesis + blockNumber x 12 s when its own lookup failed
\* and at its real block time when its own lookup succeeded.
C16_FailedLookupDegradesThatTransferOnly ==
    /\ Answered("getBlock", "error") => ~Failed
    /\ Responded /\ rpcUrl =>
        /\ status = 200
        /\ LET constructed == Constructed
                lookups == Lookups
           IN  \A i \in 1..Len(data.transfers) :
                   \A k \in 1..Len(constructed) :
                       constructed[k].transactionHash = data.transfers[i].transactionID =>
                           constructed[k].startDate =
                               IF lookups[i].answer = "error"
                               THEN GenesisSeconds
                                    + data.transfers[i].blockNumber * AvgBlockSeconds
                               ELSE BlockTimestamp(data.transfers[i].blockNumber)

\* C16's case: of three lookups one failed and two succeeded, and each of the
\* three transfers got a period
C16_Witness ==
    /\ Responded
    /\ rpcUrl
    /\ Len(data.transfers) = 3
    /\ Len(Constructed) = 3
    /\ LookupFailed(2)
    /\ ~LookupFailed(1)
    /\ ~LookupFailed(3)

---------------------------------------------------------------------------
(* Registration records *)

\* The owners list after registration reconciliation
Reconciled == ApplyRegistration(Constructed, data)

\* C17: when registration reconciliation changes the owners list (it
\* overwrites the first period's start or inserts a leading registrant
\* period), the first period starts at the greatest registrationDate of the
\* domain's records, in whatever order they are listed.
C17_LatestRegistrationSeedsFirstPeriod ==
    Responded =>
        LET constructed == Constructed
            reconciled == Reconciled
        IN  reconciled # constructed =>
                reconciled[1].startDate
                    = LatestRegistration(data.registrations).registrationDate

\* No transfers, one valid registration record, and its registrant is the
\* present owner
ScenarioC ==
    /\ Responded
    /\ Len(data.transfers) = 0
    /\ Len(data.registrations) = 1
    /\ ValidTimestamp(data.registrations[1].registrationDate)
    /\ toLowerCase(data.registrations[1].registrant) = toLowerCase(data.owner)

\* C18: in that scenario the historical list is empty and the current period
\* is the present owner's, from the registration instant.
C18_ScenarioC ==
    ScenarioC =>
        /\ Historical = <<>>
        /\ Current.address = data.owner
        /\ Current.startDate = data.registrations[1].registrationDate

\* C18's case, with a timestamp source configured and the registrant spelled
\* in another case than the owner
C18_Witness == ScenarioC /\ rpcUrl /\ data.registrations[1].registrant # data.owner

---------------------------------------------------------------------------
(* The display timeline *)

Rendered == pc = "rendered"

\* The owners ENSHistory iterates over
DisplayedOwners ==
    FinalOwners([i \in 1..Len(Historical) |-> OwnerProp(Historical[i])],
                CurrentOwnerProp(Current))

\* C19: every period of the display timeline, owner period or dormant
\* period, has duration > 0.
C19_DisplayDurationsPositive ==
    Rendered => \A k \in 1..Len(timeline) : timeline[k].duration > 0

\* C19's case: an owner without duration was skipped, and a dormant period
\* was synthesized
C19_Witness ==
    /\ Rendered
    /\ \E i \in 1..Len(DisplayedOwners) :
           DisplayDuration(DisplayedOwners[i], CurrentOwnerProp(Current), BrowserNow) <= 0
    /\ \E k \in 1..Len(timeline) : timeline[k].isDormant

\* The display period is the one of the current owner
ShownAsCurrent(period) ==
    /\ ~period.isDormant
    /\ toLowerCase(period.owner) = toLowerCase(Current.address)
    /\ period.startDate = Current.startDate

\* C20: the period identified as current has duration now - start, whatever
\* its end; every other owner period has duration end - start, or now - start
\* when it has no end.
C20_CurrentMeasuredToNow ==
    Rendered =>
        \A k \in 1..Len(timeline) :
            LET period == timeline[k]
            IN  ~period.isDormant =>
                    period.duration =
                        IF ShownAsCurrent(period)
                        THEN BrowserNow - period.startDate
                        ELSE IF period.endDate # Undefined
                        THEN period.endDate - period.startDate
                        ELSE BrowserNow - period.startDate

\* C20's case: the current period is shown with the expiry as its end, next
\* to an earlier owner's period
C20_Witness ==
    /\ Rendered
    /\ \E k \in 1..Len(timeline) :
           /\ ShownAsCurrent(timeline[k])
           /\ timeline[k].endDate = response.expiryDate
           /\ timeline[k].endDate # Undefined
    /\ \E k \in 1..Len(timeline) :
           ~timeline[k].isDormant /\ ~ShownAsCurrent(timeline[k])

\* The avatar lookup for the current owner was issued and failed
AvatarLookupFailed ==
    /\ Answered("ensdata", ensdata)
    /\ ensdata \in {"notOk", "throws"}

\* What the endpoint returns for the same domain when the lookup succeeds
WithAvatarFound ==
    WithAvatar(Named(BuildResponse(rpcUrl, data, blocks), NormalizedName(ensName)), "avatar")

\* C21: when the avatar lookup for the current owner throws or is answered
\* with a status that is not OK, the endpoint still returns the successful
\* result, with the name, the historical list, the current period (address,
\* start, end, transaction hash) and the expiry it returns when the lookup
\* succeeds; only the avatar field is absent.
C21_AvatarFailureLeavesResult ==
    AvatarLookupFailed =>
        LET found == WithAvatarFound
        IN  /\ Responded
            /\ status = 200
            /\ error = NoError
            /\ response.name = found.name
            /\ response.owners = found.owners
            /\ response.currentOwner.address = found.currentOwner.address
            /\ response.currentOwner.startDate = found.currentOwner.startDate
            /\ response.currentOwner.endDate = found.currentOwner.endDate
            /\ response.currentOwner.transactionHash = found.currentOwner.transactionHash
            /\ response.expiryDate = found.expiryDate
            /\ DOMAIN response = DOMAIN found
            /\ "avatar" \in DOMAIN found.currentOwner
            /\ DOMAIN response.currentOwner = DOMAIN found.currentOwner \ {"avatar"}

\* C21's case: the lookup threw for a domain with an earlier owner, an
\* expiry, and a name given without its suffix
C21_Witness ==
    /\ Responded
    /\ ensdata = "throws"
    /\ Answered("ensdata", "throws")
    /\ Len(Historical) > 0
    /\ response.expiryDate # Undefined
    /\ ensName = "name"

\* The list the consolidation step produced for this request
Consolidated == Consolidate(SortByStartDate(Reconciled))

\* C22: applying the consolidation step to a sequence that is already its
\* own output, in which no two consecutive periods have the same owner,
\* returns an identical sequence: the same periods, in the same order, with
\* the same start and end instants.
C22_ConsolidationIdempotent ==
    Responded =>
        LET consolidated == Consolidated
        IN  /\ \A k \in 1..(Len(consolidated) - 1) :
                   toLowerCase(consolidated[k].address) #
                       toLowerCase(consolidated[k + 1].address)
            /\ Consolidate(consolidated) = consolidated

\* C22's case: the step merged two periods of one owner and left periods of
\* two owners
C22_Witness ==
    /\ Responded
    /\ Len(Consolidated) >= 2
    /\ Len(Consolidated) < Len(Reconciled)

\* C23: right after period construction, on the block-timestamp path and on
\* the estimate-only path, each constructed period but the last ends at the
\* instant at which the period of the next surviving transfer starts, and
\* the last constructed period is open.
C23_ConstructedBackToBack ==
    Responded =>
        LET constructed == Constructed
        IN  /\ \A k \in 1..(Len(constructed) - 1) :
                   constructed[k].endDate = constructed[k + 1].startDate
            /\ Len(constructed) > 0 =>
                   constructed[Len(constructed)].endDate = Undefined

\* The positions, from i on, of the transfers the construction loop does not
\* skip as duplicates
RECURSIVE Surviving(_, _, _)
Surviving(transfers, blks, i) ==
    IF i > Len(transfers)
    THEN <<>>
    ELSE (IF IsDuplicateTransfer(transfers, blks, i) THEN <<>> ELSE <<i>>)
         \o Surviving(transfers, blks, i + 1)

\* The log with the duplicate transfers removed, and the blocks of the rest
DeduplicatedLog ==
    LET kept == Surviving(data.transfers, blocks, 1)
    IN  [ d |-> [data EXCEPT !.transfers = [k \in 1..Len(kept) |-> data.transfers[kept[k]]]],
          blks |-> [k \in 1..Len(kept) |-> blocks[kept[k]]] ]

\* The flag and label the construction gives the transfer `tx` of the log d
ClassificationOfTx(d, blks, tx) ==
    LET constructed == ConstructOwners(TRUE, d, blks)
    IN  { <<constructed[k].isMarketplace, constructed[k].marketplaceName>> :
            k \in { j \in 1..Len(constructed) : constructed[j].transactionHash = tx } }

\* C24: a transfer is classified by its neighbours in the deduplicated list:
\* every surviving transfer of a log with same-block same-owner duplicates
\* gets the isMarketplace flag and the label it gets in the same log with
\* those duplicates removed.
C24_ClassifiedAsInDeduplicatedLog ==
    Responded /\ rpcUrl =>
        LET deduplicated == DeduplicatedLog
        IN  \A k \in 1..Len(deduplicated.d.transfers) :
                LET tx == deduplicated.d.transfers[k].transactionID
                IN  ClassificationOfTx(data, blocks, tx) =
                        ClassificationOfTx(deduplicated.d, deduplicated.blks, tx)

\* The blocks as the outcomes of the lookups give them, transfer by transfer
BlocksByTransfer ==
    [i \in 1..Len(data.transfers) |->
        IF Lookups[i].answer = "block"
        THEN BlockTimestamp(data.transfers[i].blockNumber)
        ELSE NullBlock]

\* C25: every block lookup is issued before any of them is awaited, no
\* period is constructed until every lookup has settled, resolved or failed,
\* and the result is the same for every order in which the lookups
\* complete: each timestamp is attached to the transfer it was requested for.
C25_LookupsJoinedInTransferOrder ==
    /\ pc = "lookups" \/ settled # <<>> => Len(Lookups) = Len(data.transfers)
    /\ pc \in {"process", "responded", "rendered"} /\ rpcUrl =>
        /\ Len(settled) = Len(data.transfers)
        /\ Unsettled = {}
        /\ \A i \in 1..Len(data.transfers) : Lookups[i].answer \in {"block", "error"}
        /\ blocks = BlocksByTransfer
    /\ Responded /\ rpcUrl =>
        LET body == BuildResponse(TRUE, data, BlocksByTransfer)
        IN  /\ response.owners = body.owners
            /\ response.currentOwner.startDate = body.currentOwner.startDate
            /\ response.currentOwner.endDate = body.currentOwner.endDate
            /\ response.currentOwner.address = body.currentOwner.address

\* C25's case: the lookup of the second transfer settled before the lookup
\* of the first, for transfers of different blocks, one resolved and one failed
C25_Witness ==
    /\ Responded
    /\ rpcUrl
    /\ Len(settled) >= 2
    /\ settled[1] > settled[2]
    /\ data.transfers[settled[1]].blockNumber # data.transfers[settled[2]].blockNumber
    /\ Lookups[settled[1]].answer # Lookups[settled[2]].answer
    /\ Len(Historical) > 0

---------------------------------------------------------------------------
(* The leaderboard endpoint *)

\* The transfers the subgraph returned to the batch requests of a log
RECURSIVE Fetched(_)
Fetched(log) ==
    IF log = <<>>
    THEN <<>>
    ELSE LET entry == log[Len(log)]
         IN  Fetched(SubSeq(log, 1, Len(log) - 1))
             \o (IF entry.answer = "transfers"
                 THEN Batch(transfersTable, entry.orderDirection, entry.skip, batchSize)
                 ELSE <<>>)

\* The request was answered with a leaderboard
Succeeded(r) == leaderboardRequests[r].pc = "done" /\ leaderboardRequests[r].status = 200

\* It was answered without a request to the subgraph
ServedFromCache(r) == Succeeded(r) /\ leaderboardRequests[r].requests = <<>>

\* It was answered with the leaderboard it computed
Computed(r) == Succeeded(r) /\ leaderboardRequests[r].requests # <<>>

\* The leaderboard of the transfers that request r itself fetched
OwnLeaderboard(r) == responseData(Fetched(leaderboardRequests[r].requests))

\* C26: however concurrent leaderboard requests interleave, every successful
\* response is the complete leaderboard one single request computed from the
\* transfers it fetched itself, never a mix of two computations, and the
\* cache holds nothing or such a complete result, stamped with that
\* request's start time.
C26_ResponsesAndCacheAreWhole ==
    /\ \A r \in DOMAIN leaderboardRequests :
        /\ Computed(r) => leaderboardRequests[r].body = OwnLeaderboard(r)
        /\ ServedFromCache(r) =>
               \E q \in DOMAIN leaderboardRequests :
                   /\ Computed(q)
                   /\ leaderboardRequests[r].body = OwnLeaderboard(q)
    /\ cachedData # NoCache =>
           \E q \in DOMAIN leaderboardRequests :
               /\ Computed(q)
               /\ cachedData = [ data |-> OwnLeaderboard(q),
                                 timestamp |-> leaderboardRequests[q].now ]

\* C26's case: two requests found the cache empty, fetched at the same time
\* and computed different leaderboards
C26_Witness ==
    /\ Computed("r1")
    /\ Computed("r2")
    /\ leaderboardRequests["r1"].seen = NoCache
    /\ leaderboardRequests["r2"].seen = NoCache
    /\ leaderboardRequests["r1"].body # leaderboardRequests["r2"].body
    /\ leaderboardRequests["r1"].body.leaderboard # <<>>

\* The cache entry a request found at its arrival was fresh
FoundFresh(r) ==
    /\ leaderboardRequests[r].seen # NoCache
    /\ leaderboardRequests[r].now - leaderboardRequests[r].seen.timestamp < CACHE_TTL

\* C27: a request is answered from the cache, with no upstream fetch, exactly
\* when at its arrival an entry exists whose timestamp, the start time of the
\* request that computed it, is less than 30 minutes old; otherwise it goes
\* to the subgraph, so that no entry is served 30 minutes or more after its
\* timestamp.
C27_ServedFromCacheWhileFresh ==
    /\ \A r \in DOMAIN leaderboardRequests :
        leaderboardRequests[r].pc # "idle" =>
            /\ FoundFresh(r) <=> ServedFromCache(r)
            /\ FoundFresh(r) => leaderboardRequests[r].body = leaderboardRequests[r].seen.data
            /\ ~FoundFresh(r) =>
                   \/ leaderboardRequests[r].pc = "fetch"
                   \/ leaderboardRequests[r].requests # <<>>
            /\ leaderboardRequests[r].seen # NoCache =>
                   \E q \in DOMAIN leaderboardRequests :
                       /\ Computed(q)
                       /\ leaderboardRequests[r].seen.timestamp = leaderboardRequests[q].now
                       /\ leaderboardRequests[r].seen.data = leaderboardRequests[q].body

\* C27's case: one request was served an entry 15 minutes old, and the other
\* had computed it
C27_Witness ==
    \E r \in DOMAIN leaderboardRequests :
        /\ ServedFromCache(r)
        /\ leaderboardRequests[r].now - leaderboardRequests[r].seen.timestamp = CACHE_TTL \div 2
        /\ leaderboardRequests[r].body.leaderboard # <<>>

\* Some batch request of the log failed
SomeBatchFailed(log) == \E k \in 1..Len(log) : log[k].answer \in {"rateLimited", "error"}

\* C28: a request during which a batch request failed, rate-limited or
\* otherwise, leaves the cache as it was: the cache is only written with a
\* result of a fetch in which no batch request failed.
C28_FailedFetchLeavesCache ==
    [][ \A r \in DOMAIN leaderboardRequests :
            ( /\ leaderboardRequests[r].pc = "fetch"
              /\ leaderboardRequests'[r].pc = "done"
              /\ SomeBatchFailed(leaderboardRequests'[r].requests) )
            => cachedData' = cachedData ]_vars

\* The transfer records of a domain among the transfers a request fetched
RecordsOfDomain(r, domainName) ==
    LET transfers == TransfersOfDomain(leaderboardRequests[r].allTransfers, domainName)
    IN  { transfers[k].id : k \in 1..Len(transfers) }

\* C29: for every domain of the leaderboard, transferCount is at least 1 and
\* at most the number of distinct transfer records of that domain among the
\* fetched transfers, minus one: a record returned by the descending and by
\* the ascending fetch is not counted twice.
C29_CountBoundedByDistinctRecords ==
    \A r \in DOMAIN leaderboardRequests :
        Computed(r) =>
            LET leaderboard == leaderboardRequests[r].body.leaderboard
            IN  \A k \in 1..Len(leaderboard) :
                    /\ leaderboard[k].transferCount >= 1
                    /\ leaderboard[k].transferCount
                           <= Cardinality(RecordsOfDomain(r, leaderboard[k].name)) - 1

---------------------------------------------------------------------------
(* The Leaderboard component *)

\* C30: under any sequence of toggles and fetch completions, at most one
\* request to /api/leaderboard is in flight at a time, and once a fetch has
\* succeeded (hasFetched = true) no further request is issued.
C30_OneFetchAtATime ==
    [][ /\ Len(inFlight') <= 1
        /\ hasFetched => Len(inFlight') <= Len(inFlight) ]_vars

=============================================================================
